---- MODULE Spec2Model ----
(***************************************************************************)
(* MCPClient (src/lib/mcp-client.js): a client supervising several worker *)
(* processes that speak newline-delimited JSON-RPC over stdin/stdout.      *)
(*                                                                         *)
(* One action of the model is one macrotask of the JavaScript event loop  *)
(* (an API call, a timer callback, a stream or process event) together    *)
(* with every promise continuation (microtask) it triggers.               *)
(***************************************************************************)
EXTENDS Integers, Sequences, FiniteSets, TLC

\* ---------------------------------------------------------------- bounds
MaxUser     == 2   \* requests other than handshake requests issued in one run
MaxSpawns   == 2   \* processes spawned in one run, all workers together
MaxRuns     == 2   \* runs of _connect() in one run
MaxAttempts == 2   \* config.maxReconnectAttempts of the run
MaxNow      == 1   \* the clock readings after the first, in units of its resolution

\* config.reconnectDelay, in milliseconds (the default).
reconnectDelay == 1000

Servers == {"A", "B"}

\* The catalog each worker answers tools/list and resources/list with.
ToolsOf(w) == IF w = "A" THEN <<"a1", "a2">> ELSE <<"a1", "b2", "b3">>
ResourcesOf(w) == IF w = "A" THEN <<"ra">> ELSE <<"rb">>

VARIABLES
  config,              \* this.config (autoReconnect, maxReconnectAttempts)
  servers,             \* this.servers: the registered names, in insertion order
  server,              \* this.servers.get(name): the worker's record
  healthStatus,        \* this.healthStatus
  calls,               \* the promises made by sendRequestToServer that a pending
                       \* entry or a timeout timer still refers to, by issue number
  messageId,           \* this.messageId
  metrics,             \* this.metrics
  isConnected,         \* this.isConnected
  connectionPromise,   \* this.connectionPromise: 0 (null) or the promise of a run
  runCount,            \* the promises made by _connect() so far
  run,                 \* the run of _connect() in flight: the attempt it awaits per worker
  allTools,            \* this.allTools
  allResources,        \* this.allResources
  healthCheckInterval, \* this.healthCheckInterval is not null
  intervals,           \* the interval timers that are active
  userCalls,           \* requests other than handshake requests issued so far
  down,                \* history: disconnect() has returned and connect() has not
                       \* been called since
  errorListener,       \* this.listenerCount('error') > 0
  now,                 \* Date.now(), from the construction of the client on
  crashed,             \* an uncaught exception has ended the Node process
  app                  \* the application's executeMultiStepRequest: its locals and
                       \* where it stands

vars == <<config, servers, server, healthStatus, calls, messageId, metrics,
          isConnected, connectionPromise, runCount, run, allTools,
          allResources, healthCheckInterval, intervals, userCalls, down,
          errorListener, now, crashed, app>>

\* ---------------------------------------------------------------- helpers
MapPut(m, k, v) == [x \in (DOMAIN m) \cup {k} |-> IF x = k THEN v ELSE m[x]]

MapDel(m, k) == [x \in (DOMAIN m) \ {k} |-> m[x]]

Range(s) == {s[i] : i \in DOMAIN s}

Pos(s, w) == CHOOSE i \in DOMAIN s : s[i] = w

\* The whole state as one record, so that a handler and the continuations it
\* triggers compose as functions. The last five fields are what one macrotask
\* does to the outside: the error an API call fails fast with, the promise
\* connect() returns, the events emitted, the requests written to a process,
\* and the callers settled, each in order.
World ==
  [config |-> config, servers |-> servers, server |-> server,
   healthStatus |-> healthStatus, calls |-> calls, messageId |-> messageId,
   metrics |-> metrics, isConnected |-> isConnected,
   connectionPromise |-> connectionPromise, runCount |-> runCount,
   run |-> run, allTools |-> allTools,
   allResources |-> allResources, healthCheckInterval |-> healthCheckInterval,
   intervals |-> intervals, userCalls |-> userCalls, down |-> down,
   errorListener |-> errorListener, now |-> now, crashed |-> crashed,
   thrown |-> "none", returned |-> 0, emitted |-> <<>>, written |-> <<>>,
   settled |-> <<>>]

\* responseTimes.reduce((a, b) => a + b, 0)
RECURSIVE Reduce(_, _, _)
Reduce(seq, i, acc) ==
  IF i > Len(seq) THEN acc ELSE Reduce(seq, i + 1, acc + seq[i])

\* The quotient of two numbers, kept as the pair it is the quotient of.
Quotient(a, b) == [num |-> a, den |-> b]

\* this.metrics of the constructor; averageResponseTime starts as the number 0.
NoMetrics ==
  [totalRequests |-> 0, successfulRequests |-> 0, failedRequests |-> 0,
   averageResponseTime |-> Quotient(0, 1), responseTimes |-> <<>>]

\* An uncaught exception ends the Node process: the client and everything it
\* held is gone, and nothing runs any more.
Gone ==
  /\ userCalls' = 0
  /\ servers' = <<>>
  /\ server' = [w \in Servers |-> [registered |-> FALSE]]
  /\ healthStatus' = [w \in {} |-> 0]
  /\ calls' = [k \in {} |-> 0]
  /\ messageId' = 1
  /\ metrics' = NoMetrics
  /\ isConnected' = FALSE
  /\ connectionPromise' = 0
  /\ runCount' = 0
  /\ run' = [w \in {} |-> 0]
  /\ allTools' = <<>>
  /\ allResources' = <<>>
  /\ healthCheckInterval' = FALSE
  /\ intervals' = 0
  /\ down' = FALSE
  /\ errorListener' = FALSE
  /\ now' = now

Becomes(s) ==
  /\ ~crashed
  /\ crashed' = s.crashed
  /\ config' = s.config
  /\ app' = app
  /\ IF s.crashed THEN Gone
     ELSE /\ userCalls' = s.userCalls
          /\ servers' = s.servers
          /\ server' = s.server
          /\ healthStatus' = s.healthStatus
          /\ calls' = [k \in {x \in DOMAIN s.calls : s.calls[x].caller = "pending" \/ s.calls[x].timer}
                          |-> s.calls[k]]
          /\ messageId' = s.messageId
          /\ metrics' = s.metrics
          /\ isConnected' = s.isConnected
          /\ connectionPromise' = s.connectionPromise
          /\ runCount' = s.runCount
          /\ run' = s.run
          /\ allTools' = s.allTools
          /\ allResources' = s.allResources
          /\ healthCheckInterval' = s.healthCheckInterval
          /\ intervals' = s.intervals
          /\ down' = s.down
          /\ errorListener' = s.errorListener
          /\ now' = s.now

Emit(s, e) == [s EXCEPT !.emitted = Append(@, e)]

\* this.emit('error', { server: name, ... }): an EventEmitter without a listener
\* for 'error' throws instead, and no caller of the two handlers that emit it
\* catches what it throws.
EmitError(s, w) ==
  IF s.errorListener
  THEN Emit(s, [type |-> "error", server |-> w])
  ELSE [s EXCEPT !.crashed = TRUE]

\* client.on('error', listener)
on(s, event) ==
  IF event = "error" THEN [s EXCEPT !.errorListener = TRUE] ELSE s

\* ---------------------------------------------------------------- the application
\* const maxSteps = 10
maxSteps == 10

\* `${currentResult.server}:${currentResult.tool_name}` of the tool calls the
\* LLM may ask for.
ToolCalls == {"A:ta", "A:tb"}

\* What llm.processUserInput returns.
LLMResults ==
  [type : {"tool_call"}, toolCall : ToolCalls]
    \cup [type : {"final_answer", "text_response", "error"}, toolCall : {"-"}]

\* No user request is being processed.
NoRequest ==
  [pc |-> "idle", currentResult |-> [type |-> "-", toolCall |-> "-"],
   stepCount |-> 0, toolCallHistory |-> <<>>,
   iterations |-> 0,   \* history: the times the loop body was entered
   issued |-> 0]       \* history: the calls of mcpClient.callTool

\* seq.slice(-n)
SliceLast(seq, n) ==
  IF Len(seq) <= n THEN seq ELSE SubSeq(seq, Len(seq) - n + 1, Len(seq))

isAlternating(recentCalls) ==
  /\ Len(recentCalls) >= 4
  /\ recentCalls[1] = recentCalls[3]
  /\ recentCalls[2] = recentCalls[4]
  /\ recentCalls[1] # recentCalls[2]

isRepeating(recentCalls, toolCall) ==
  \A i \in DOMAIN SliceLast(recentCalls, 3) : SliceLast(recentCalls, 3)[i] = toolCall

\* The test of the while loop, after an iteration that did not break.
WhileTest(a) ==
  IF a.stepCount < maxSteps THEN a ELSE [a EXCEPT !.pc = "done"]

\* A variant of the loop body that counts a step only when it goes on to call
\* the tool.
LoopBodyCountsCalls(a, answer, outcome) ==
  LET a1 == [a EXCEPT !.iterations = @ + 1]
  IN IF a1.currentResult.type = "tool_call"
     THEN LET toolCall == a1.currentResult.toolCall
              a2 == [a1 EXCEPT !.toolCallHistory = Append(@, toolCall)]
              recentCalls == SliceLast(a2.toolCallHistory, 6)
          IN IF /\ Len(recentCalls) >= 4
                /\ (isAlternating(recentCalls) \/ isRepeating(recentCalls, toolCall))
             THEN WhileTest([a2 EXCEPT !.currentResult = answer])
             ELSE LET a3 == [a2 EXCEPT !.issued = @ + 1, !.stepCount = @ + 1]
                  IN IF outcome = "thrown"
                     THEN [a3 EXCEPT !.pc = "thrown"]
                     ELSE WhileTest([a3 EXCEPT !.currentResult = answer])
     ELSE [a1 EXCEPT !.pc = "done", !.stepCount = @ + 1]

\* One iteration of the while loop of executeMultiStepRequest; answer is what
\* the LLM returns to the prompt of the iteration, outcome what callTool does.
LoopBody(a, answer, outcome) ==
  LET a1 == [a EXCEPT !.stepCount = @ + 1, !.iterations = @ + 1]
  IN IF a1.currentResult.type = "tool_call"
     THEN LET toolCall == a1.currentResult.toolCall
              a2 == [a1 EXCEPT !.toolCallHistory = Append(@, toolCall)]
              recentCalls == SliceLast(a2.toolCallHistory, 6)
          IN IF /\ Len(recentCalls) >= 4
                /\ (isAlternating(recentCalls) \/ isRepeating(recentCalls, toolCall))
             THEN WhileTest([a2 EXCEPT !.currentResult = answer])
             ELSE LET a3 == [a2 EXCEPT !.issued = @ + 1]
                  IN IF outcome = "thrown"
                     THEN [a3 EXCEPT !.pc = "thrown"]
                     ELSE WhileTest([a3 EXCEPT !.currentResult = answer])
     ELSE [a1 EXCEPT !.pc = "done"]

\* executeMultiStepRequest(originalRequest, firstResult, ...), up to its loop.
executeMultiStepRequest(firstResult) ==
  WhileTest([NoRequest EXCEPT !.pc = "loop", !.currentResult = firstResult])

\* ---------------------------------------------------------------- constructor
Init ==
  /\ config \in [autoReconnect : BOOLEAN, maxReconnectAttempts : {MaxAttempts}]
  /\ servers = <<>>
  /\ server = [w \in Servers |-> [registered |-> FALSE]]
  /\ healthStatus = [w \in {} |-> 0]
  /\ calls = [k \in {} |-> 0]
  /\ messageId = 1
  /\ metrics = NoMetrics
  /\ isConnected = FALSE
  /\ connectionPromise = 0
  /\ runCount = 0
  /\ run = [w \in {} |-> 0]
  /\ allTools = <<>>
  /\ allResources = <<>>
  /\ healthCheckInterval = FALSE
  /\ intervals = 0
  /\ userCalls = 0
  /\ down = FALSE
  /\ errorListener = FALSE
  /\ now = 0
  /\ crashed = FALSE
  /\ app = NoRequest

Registered(s) == Range(s.servers)

\* ---------------------------------------------------------------- addServer
NewServer(s) ==
  [registered |-> TRUE,
   procs |-> <<>>,
   pendingRequests |-> [x \in {} |-> 0],
   tools |-> <<>>,
   resources |-> <<>>,
   connected |-> FALSE,
   reconnectAttempts |-> 0,
   reconnectTimers |-> <<>>,
   lastId |-> 0,
   left |-> 0,   \* history: the processes spawned so far when an exit of the
                 \* worker last scheduled no reconnect; 0 again once connect()
                 \* starts a run
   maxReconnectAttempts |-> s.config.maxReconnectAttempts]

\* A variant that registers a name again over its record.
addServerOver(s, name) ==
  Emit([s EXCEPT !.servers = IF name \in Registered(s) THEN @ ELSE Append(@, name),
                 !.server[name] = NewServer(s),
                 !.healthStatus = MapPut(@, name, [healthy |-> FALSE, error |-> <<>>])],
       [type |-> "serverAdded", server |-> name])

addServer(s, name) ==
  IF name \in Registered(s)
  THEN [s EXCEPT !.thrown = "AlreadyExists"]
  ELSE Emit([s EXCEPT !.servers = Append(@, name),
                      !.server[name] = NewServer(s),
                      !.healthStatus = MapPut(@, name, [healthy |-> FALSE, error |-> <<>>])],
            [type |-> "serverAdded", server |-> name])


\* addServer(name, path, dir, options): the options given are spread over the
\* defaults taken from this.config.
addServerWith(s, name, options) ==
  LET s1 == addServer(s, name)
  IN IF s1.thrown # "none"
     THEN s1
     ELSE [s1 EXCEPT !.server[name].maxReconnectAttempts = options.maxReconnectAttempts]


\* ---------------------------------------------------------------- health timer
\* A variant that does not clear the interval it replaces.
startHealthMonitoringAgain(s) ==
  [s EXCEPT !.healthCheckInterval = TRUE, !.intervals = @ + 1]

startHealthMonitoring(s) ==
  LET cleared == IF s.healthCheckInterval THEN s.intervals - 1 ELSE s.intervals
  IN [s EXCEPT !.healthCheckInterval = TRUE, !.intervals = cleared + 1]

stopHealthMonitoring(s) ==
  IF s.healthCheckInterval
  THEN [s EXCEPT !.healthCheckInterval = FALSE, !.intervals = @ - 1]
  ELSE s

\* ---------------------------------------------------------------- catalog
\* A variant of the loop that keeps one entry per name.
RECURSIVE StampedByName(_, _, _, _)
StampedByName(s, field, i, acc) ==
  IF i > Len(s.servers) THEN acc
  ELSE LET w == s.servers[i]
           own == IF field = "tools" THEN s.server[w].tools ELSE s.server[w].resources
           new == SelectSeq(own, LAMBDA x : \A j \in DOMAIN acc : acc[j].name # x)
       IN StampedByName(s, field, i + 1,
                        acc \o [j \in 1..Len(new) |-> [name |-> new[j], server |-> w]])

RECURSIVE Stamped(_, _, _, _)
Stamped(s, field, i, acc) ==
  IF i > Len(s.servers) THEN acc
  ELSE LET w == s.servers[i]
           own == IF field = "tools" THEN s.server[w].tools ELSE s.server[w].resources
       IN Stamped(s, field, i + 1,
                  acc \o [j \in 1..Len(own) |-> [name |-> own[j], server |-> w]])

aggregateToolsAndResources(s) ==
  [s EXCEPT !.allTools = Stamped(s, "tools", 1, <<>>),
            !.allResources = Stamped(s, "resources", 1, <<>>)]

getAllTools(s) == s.allTools

getAllResources(s) == s.allResources

\* ---------------------------------------------------------------- _connect, after the await
ConnectSucceeded(s) ==
  LET s1 == aggregateToolsAndResources(s)
      s2 == Emit([s1 EXCEPT !.isConnected = TRUE],
                 [type |-> "connected", serverCount |-> Len(s.servers)])
      s3 == IF s2.config.autoReconnect THEN startHealthMonitoring(s2) ELSE s2
  IN [s3 EXCEPT !.run = [w \in {} |-> 0], !.connectionPromise = 0]

ConnectFailed(s, err) ==
  [Emit(s, [type |-> "connectionFailed", error |-> err])
     EXCEPT !.run = [w \in {} |-> 0], !.connectionPromise = 0]

\* Promise.all over the attempts of the run in flight: it is resolved once
\* every attempt is resolved.
RunAllResolved(s) ==
  \A w \in DOMAIN s.run : s.server[w].procs[s.run[w]].att = "resolved"

\* The promise of connectToServer for process g of w settles; whoever awaits it
\* (the run of _connect in flight, or the reconnect timer's catch) continues.
SettleAttempt(s, w, g, outcome, err) ==
  IF s.server[w].procs[g].att # "pending" THEN s
  ELSE LET s1 == [s EXCEPT !.server[w].procs[g].att = outcome]
       IN IF s.connectionPromise # 0 /\ w \in DOMAIN s.run /\ s.run[w] = g
          THEN IF outcome = "rejected" THEN ConnectFailed(s1, err)
               ELSE IF RunAllResolved(s1) THEN ConnectSucceeded(s1)
               ELSE s1
          ELSE s1

\* ---------------------------------------------------------------- sendRequestToServer
\* A variant without the connection check.
SendCheckNoConnected(s, w, skipConnectionCheck) ==
  IF w \notin Registered(s) THEN "NotFound"
  ELSE IF s.server[w].procs = <<>> THEN "NotStarted"
  ELSE "ok"

SendCheck(s, w, skipConnectionCheck) ==
  IF w \notin Registered(s) THEN "NotFound"
  ELSE IF ~skipConnectionCheck /\ ~s.server[w].connected THEN "NotConnected"
  ELSE IF s.server[w].procs = <<>> THEN "NotStarted"
  ELSE "ok"

\* A variant that hands out the same id again.
SameMessageId(id) == id

NextMessageId(id) == id + 1

\* The promise body: the entry is registered, the request written to the
\* worker's current process and the timeout timer started.
SendRequest(s, w, method, skipConnectionCheck, origin, g) ==
  LET id == s.messageId
      k == s.metrics.totalRequests + 1
      c == [server |-> w, id |-> id, method |-> method, origin |-> origin,
            gen |-> g, caller |-> "pending", timer |-> TRUE, startTime |-> s.now]
      wr == [server |-> w, proc |-> Len(s.server[w].procs), id |-> id,
             method |-> method, skip |-> skipConnectionCheck,
             connected |-> s.server[w].connected]
  IN [s EXCEPT !.metrics.totalRequests = @ + 1,
               !.messageId = NextMessageId(id),
               !.calls = MapPut(@, k, c),
               !.userCalls = IF origin = "init" THEN @ ELSE @ + 1,
               !.server[w].pendingRequests = MapPut(@, id, k),
               !.server[w].lastId = id,
               !.written = Append(@, wr)]

\* ---------------------------------------------------------------- health loop
SetHealth(s, w, healthy, err) ==
  [s EXCEPT !.healthStatus = MapPut(@, w, [healthy |-> healthy, error |-> err])]

\* The for loop of the interval callback from position i on, up to its next await.
RECURSIVE HealthLoop(_, _)
HealthLoop(s, i) ==
  IF i > Len(s.servers) THEN s
  ELSE LET w == s.servers[i] IN
       IF ~s.server[w].connected THEN HealthLoop(s, i + 1)
       ELSE LET chk == SendCheck(s, w, FALSE) IN
            IF chk = "ok"
            THEN SendRequest(s, w, "tools/call", FALSE, "health", 0)
            ELSE HealthLoop(Emit(SetHealth(s, w, FALSE, <<w, chk>>),
                                 [type |-> "serverUnhealthy", server |-> w]),
                            i + 1)

\* ---------------------------------------------------------------- continuations of a settled request
FailAttempt(s, w, g, cause) == SettleAttempt(s, w, g, "rejected", <<w, cause>>)

\* A variant of the handshake's continuation that leaves the attempt counter
\* alone.
InitContinueNoReset(s, k, outcome) ==
  LET c == s.calls[k]
      w == c.server
  IN IF outcome = "result"
     THEN IF c.method = "tools/list"
          THEN LET s1 == [s EXCEPT !.server[w].tools = ToolsOf(w)]
                   chk == SendCheck(s1, w, TRUE)
               IN IF chk = "ok"
                  THEN SendRequest(s1, w, "resources/list", TRUE, "init", c.gen)
                  ELSE FailAttempt(s1, w, c.gen, chk)
          ELSE LET s1 == Emit([s EXCEPT !.server[w].resources = ResourcesOf(w)],
                              [type |-> "serverInitialized", server |-> w])
                   s2 == [s1 EXCEPT !.server[w].connected = TRUE]
                   s3 == SetHealth(s2, w, TRUE, <<>>)
               IN SettleAttempt(s3, w, c.gen, "resolved", <<>>)
     ELSE FailAttempt(s, w, c.gen, outcome)

\* initializeServer and the startup timer's callback, after an await.
InitContinue(s, k, outcome) ==
  LET c == s.calls[k]
      w == c.server
  IN IF outcome = "result"
     THEN IF c.method = "tools/list"
          THEN LET s1 == [s EXCEPT !.server[w].tools = ToolsOf(w)]
                   chk == SendCheck(s1, w, TRUE)
               IN IF chk = "ok"
                  THEN SendRequest(s1, w, "resources/list", TRUE, "init", c.gen)
                  ELSE FailAttempt(s1, w, c.gen, chk)
          ELSE LET s1 == Emit([s EXCEPT !.server[w].resources = ResourcesOf(w)],
                              [type |-> "serverInitialized", server |-> w])
                   s2 == [s1 EXCEPT !.server[w].connected = TRUE,
                                    !.server[w].reconnectAttempts = 0]
                   s3 == SetHealth(s2, w, TRUE, <<>>)
               IN SettleAttempt(s3, w, c.gen, "resolved", <<>>)
     ELSE FailAttempt(s, w, c.gen, outcome)

\* callTool or readResource, after its await.
UserContinue(s, k, outcome) ==
  LET c == s.calls[k] IN
  IF outcome # "timeout"
  THEN Emit(s, [type |-> IF c.method = "tools/call" THEN "toolCalled" ELSE "resourceRead",
                server |-> c.server])
  ELSE s

\* The interval callback, after the await of its probe.
HealthContinue(s, k, outcome) ==
  LET c == s.calls[k]
      w == c.server
      s1 == IF outcome # "timeout"
            THEN SetHealth(Emit(s, [type |-> "toolCalled", server |-> w]), w, TRUE, <<>>)
            ELSE Emit(SetHealth(s, w, FALSE, <<w, "timeout">>),
                      [type |-> "serverUnhealthy", server |-> w])
  IN HealthLoop(s1, Pos(s.servers, w) + 1)

\* Whoever awaits call k continues; outcome is the payload call k was resolved
\* with, or "timeout".
Continue(s, k, outcome) ==
  CASE s.calls[k].origin = "init" -> InitContinue(s, k, outcome)
    [] s.calls[k].origin = "health" -> HealthContinue(s, k, outcome)
    [] OTHER -> UserContinue(s, k, outcome)

RequestCompleted(s, k, success) ==
  Emit(s, [type |-> "requestCompleted", server |-> s.calls[k].server,
           method |-> s.calls[k].method, success |-> success])

\* A settled promise is referred to only by its timeout timer, which reads the
\* worker and the id.
Forget(s, k) ==
  [s EXCEPT !.calls[k].method = "-", !.calls[k].origin = "-", !.calls[k].gen = 0,
            !.calls[k].startTime = 0]

\* responseTimes.reduce((a, b) => a + b, 0) / responseTimes.length
Average(responseTimes) ==
  Quotient(Reduce(responseTimes, 1, 0), Len(responseTimes))

\* getMetrics(): a copy of this.metrics
getMetrics(s) == s.metrics

\* resolve(response) of call k, then the .then of sendRequestToServer.
ResolveCall(s, k, payload) ==
  IF s.calls[k].caller # "pending" THEN s
  ELSE LET responseTime == s.now - s.calls[k].startTime
           s1 == [s EXCEPT !.calls[k].caller = "resolved",
                           !.metrics.successfulRequests = @ + 1,
                           !.settled = Append(@, [call |-> k, as |-> "resolved", with |-> payload])]
           s2 == [s1 EXCEPT !.metrics.responseTimes = Append(@, responseTime)]
           s3 == [s2 EXCEPT !.metrics.averageResponseTime =
                              Average(s2.metrics.responseTimes)]
       IN Forget(Continue(RequestCompleted(s3, k, TRUE), k, payload), k)

\* reject(error) of call k, then the .catch of sendRequestToServer.
RejectCall(s, k) ==
  IF s.calls[k].caller # "pending" THEN s
  ELSE LET s1 == [s EXCEPT !.calls[k].caller = "rejected",
                           !.metrics.failedRequests = @ + 1,
                           !.settled = Append(@, [call |-> k, as |-> "rejected", with |-> "timeout"])]
       IN Forget(Continue(RequestCompleted(s1, k, FALSE), k, "timeout"), k)

\* ---------------------------------------------------------------- connectToServer
\* The synchronous part: the process is spawned, its handlers are attached and
\* the startup timer is started.
Spawn(s, w) ==
  [s EXCEPT !.server[w].procs =
     Append(@, [st |-> "running", startup |-> TRUE, att |-> "pending"])]

RECURSIVE SpawnAll(_, _)
SpawnAll(s, i) ==
  IF i > Len(s.servers) THEN s ELSE SpawnAll(Spawn(s, s.servers[i]), i + 1)

\* A variant that marks the worker connected before the handshake.
OnStartupTimerEager(s, w, g) ==
  LET s1 == [s EXCEPT !.server[w].procs[g].startup = FALSE,
                      !.server[w].connected = TRUE]
      chk == SendCheck(s1, w, TRUE)
  IN IF chk = "ok"
     THEN SendRequest(s1, w, "tools/list", TRUE, "init", g)
     ELSE FailAttempt(s1, w, g, chk)

\* The startup timer's callback of process g of w, up to its first await.
OnStartupTimer(s, w, g) ==
  LET s1 == [s EXCEPT !.server[w].procs[g].startup = FALSE]
      chk == SendCheck(s1, w, TRUE)
  IN IF chk = "ok"
     THEN SendRequest(s1, w, "tools/list", TRUE, "init", g)
     ELSE FailAttempt(s1, w, g, chk)

\* ---------------------------------------------------------------- stdout
\* What a 'data' event of a process's stdout carries: the bytes of one stream
\* chunk, as the pieces of the response lines they belong to. A piece is a
\* complete line (the JSON text of a response and its newline), or the head or
\* the tail of a line that the stream has cut in two.
Line(id, payload) == [part |-> "line", id |-> id, payload |-> payload]
LineHead(id, payload) == [part |-> "head", id |-> id, payload |-> payload]
LineTail(id, payload) == [part |-> "tail", id |-> id, payload |-> payload]

\* A complete line that is not JSON text.
Undecodable == [part |-> "text"]

\* JSON.parse(data.toString().trim()): trim() drops the newline at the end; the
\* text parses only if it is the JSON text of one response. Two lines, part of
\* a line, or nothing make JSON.parse throw.
JSONparse(data) ==
  IF Len(data) = 1 /\ data[1].part = "line"
  THEN [kind |-> "response", id |-> data[1].id, payload |-> data[1].payload]
  ELSE [kind |-> "malformed"]

\* Variants of the stdout handler: one that takes the oldest entry of the table
\* whatever the id, one that looks the id up in every worker's table, and one
\* that reports an id without an entry as an error.
OnStdoutOldest(s, w, chunk) ==
  IF chunk.kind = "malformed"
  THEN EmitError(s, w)
  ELSE IF DOMAIN s.server[w].pendingRequests # {}
  THEN LET id == CHOOSE x \in DOMAIN s.server[w].pendingRequests :
                   \A y \in DOMAIN s.server[w].pendingRequests : x <= y
           k == s.server[w].pendingRequests[id]
           s1 == [s EXCEPT !.server[w].pendingRequests = MapDel(@, id)]
       IN ResolveCall(s1, k, chunk.payload)
  ELSE s

OnStdoutAnyTable(s, w, chunk) ==
  IF chunk.kind = "malformed"
  THEN EmitError(s, w)
  ELSE LET vs == {v \in Registered(s) : chunk.id \in DOMAIN s.server[v].pendingRequests}
       IN IF vs = {} THEN s
          ELSE LET v == CHOOSE x \in vs : TRUE
                   k == s.server[v].pendingRequests[chunk.id]
                   s1 == [s EXCEPT !.server[v].pendingRequests = MapDel(@, chunk.id)]
               IN ResolveCall(s1, k, chunk.payload)

OnStdoutStrict(s, w, chunk) ==
  IF chunk.kind = "malformed"
  THEN EmitError(s, w)
  ELSE IF chunk.id \in DOMAIN s.server[w].pendingRequests
  THEN LET k == s.server[w].pendingRequests[chunk.id]
           s1 == [s EXCEPT !.server[w].pendingRequests = MapDel(@, chunk.id)]
       IN ResolveCall(s1, k, chunk.payload)
  ELSE EmitError(s, w)

\* The 'error' handler of process g of w: the process could not be spawned. It
\* never runs, prints nothing, and Node emits no 'exit' for it.
OnProcessError(s, w, g) ==
  LET s1 == EmitError([s EXCEPT !.server[w].procs[g].st = "failed"], w)
  IN IF s1.crashed THEN s1 ELSE FailAttempt(s1, w, g, "spawn")

\* The stdout 'data' handler of a process of w.
OnStdout(s, w, chunk) ==
  IF chunk.kind = "malformed"
  THEN EmitError(s, w)
  ELSE IF chunk.id \in DOMAIN s.server[w].pendingRequests
  THEN LET k == s.server[w].pendingRequests[chunk.id]
           s1 == [s EXCEPT !.server[w].pendingRequests = MapDel(@, chunk.id)]
       IN ResolveCall(s1, k, chunk.payload)
  ELSE s

\* Variants of the timeout callback: one that does not look whether the entry
\* is still there, and one that drops the worker's whole table.
OnTimeoutUnchecked(s, k) ==
  LET c == s.calls[k]
      w == c.server
      s1 == [s EXCEPT !.calls[k].timer = FALSE]
  IN RejectCall([s1 EXCEPT !.server[w].pendingRequests = MapDel(@, c.id),
                           !.metrics.failedRequests = @ + 1], k)

OnTimeoutClearsAll(s, k) ==
  LET c == s.calls[k]
      w == c.server
      s1 == [s EXCEPT !.calls[k].timer = FALSE]
  IN IF c.id \in DOMAIN s1.server[w].pendingRequests
     THEN RejectCall([s1 EXCEPT !.server[w].pendingRequests = [x \in {} |-> 0],
                                !.metrics.failedRequests = @ + 1], k)
     ELSE s1

\* The timeout timer's callback of call k.
OnTimeout(s, k) ==
  LET c == s.calls[k]
      w == c.server
      s1 == [s EXCEPT !.calls[k].timer = FALSE]
  IN IF c.id \in DOMAIN s1.server[w].pendingRequests
     THEN RejectCall([s1 EXCEPT !.server[w].pendingRequests = MapDel(@, c.id),
                                !.metrics.failedRequests = @ + 1], k)
     ELSE s1

\* A variant of the exit handler that computes the delay before it counts the
\* attempt.
OnExitDelayBefore(s, w, g) ==
  LET s1 == [s EXCEPT !.server[w].procs[g].st = "exited",
                      !.server[w].connected = FALSE]
      s2 == Emit(SetHealth(s1, w, FALSE, <<w, "exited">>),
                 [type |-> "serverDisconnected", server |-> w])
      n == s2.server[w].reconnectAttempts + 1
  IN IF s2.config.autoReconnect
        /\ s2.server[w].reconnectAttempts < s2.server[w].maxReconnectAttempts
     THEN [s2 EXCEPT !.server[w].reconnectAttempts = n,
                     !.server[w].reconnectTimers = Append(@, reconnectDelay * (n - 1))]
     ELSE s2

\* A variant of the exit handler that leaves the connected flag alone.
OnExitKeepsFlag(s, w, g) ==
  LET s1 == [s EXCEPT !.server[w].procs[g].st = "exited"]
      s2 == Emit(SetHealth(s1, w, FALSE, <<w, "exited">>),
                 [type |-> "serverDisconnected", server |-> w])
      n == s2.server[w].reconnectAttempts + 1
  IN IF s2.config.autoReconnect
        /\ s2.server[w].reconnectAttempts < s2.server[w].maxReconnectAttempts
     THEN [s2 EXCEPT !.server[w].reconnectAttempts = n,
                     !.server[w].reconnectTimers = Append(@, reconnectDelay * n)]
     ELSE s2

\* A variant of the exit handler that reconnects however many attempts were
\* made.
OnExitAlways(s, w, g) ==
  LET s1 == [s EXCEPT !.server[w].procs[g].st = "exited",
                      !.server[w].connected = FALSE]
      s2 == Emit(SetHealth(s1, w, FALSE, <<w, "exited">>),
                 [type |-> "serverDisconnected", server |-> w])
      n == s2.server[w].reconnectAttempts + 1
  IN IF s2.config.autoReconnect
     THEN [s2 EXCEPT !.server[w].reconnectAttempts = n,
                     !.server[w].reconnectTimers = Append(@, reconnectDelay * n)]
     ELSE [s2 EXCEPT !.server[w].left = Len(s2.server[w].procs)]

\* The 'exit' handler of process g of w.
OnExit(s, w, g) ==
  LET s1 == [s EXCEPT !.server[w].procs[g].st = "exited",
                      !.server[w].connected = FALSE]
      s2 == Emit(SetHealth(s1, w, FALSE, <<w, "exited">>),
                 [type |-> "serverDisconnected", server |-> w])
      n == s2.server[w].reconnectAttempts + 1
  IN IF s2.config.autoReconnect
        /\ s2.server[w].reconnectAttempts < s2.server[w].maxReconnectAttempts
     THEN [s2 EXCEPT !.server[w].reconnectAttempts = n,
                     !.server[w].reconnectTimers = Append(@, reconnectDelay * n)]
     ELSE [s2 EXCEPT !.server[w].left = Len(s2.server[w].procs)]

\* The reconnect timer's callback: connectToServer again.
OnReconnectTimer(s, w, i) ==
  Spawn([s EXCEPT !.server[w].reconnectTimers =
           [j \in 1..(Len(@) - 1) |-> IF j < i THEN @[j] ELSE @[j + 1]]], w)

\* ---------------------------------------------------------------- connect
_connect(s) ==
  LET s1 == SpawnAll(s, 1)
      s2 == [s1 EXCEPT !.server = [w \in DOMAIN @ |->
                                     IF w \in Registered(s)
                                     THEN [@[w] EXCEPT !.left = 0] ELSE @[w]],
                       !.run = [w \in Registered(s) |-> Len(s1.server[w].procs)],
                       !.runCount = @ + 1,
                       !.connectionPromise = s.runCount + 1,
                       !.returned = s.runCount + 1]
  IN IF Registered(s) = {} THEN ConnectSucceeded(s2) ELSE s2

\* A variant that does not look at the connection in flight.
connectAlways(s) ==
  IF s.isConnected THEN [s EXCEPT !.down = FALSE]
  ELSE _connect([s EXCEPT !.down = FALSE])

connect(s) ==
  IF s.isConnected THEN [s EXCEPT !.down = FALSE]
  ELSE IF s.connectionPromise # 0
  THEN [s EXCEPT !.returned = s.connectionPromise, !.down = FALSE]
  ELSE _connect([s EXCEPT !.down = FALSE])

\* ---------------------------------------------------------------- callTool, readResource
\* A variant that counts the request before it checks the worker.
UserRequestCounted(s, w, method) ==
  LET chk == SendCheck(s, w, FALSE)
  IN IF chk = "ok" THEN SendRequest(s, w, method, FALSE, "user", 0)
     ELSE [s EXCEPT !.thrown = chk, !.metrics.totalRequests = @ + 1]

UserRequest(s, w, method) ==
  LET chk == SendCheck(s, w, FALSE)
  IN IF chk = "ok" THEN SendRequest(s, w, method, FALSE, "user", 0)
     ELSE [s EXCEPT !.thrown = chk]

callTool(s, w) == UserRequest(s, w, "tools/call")

readResource(s, w) == UserRequest(s, w, "resources/read")

\* ---------------------------------------------------------------- disconnect
RECURSIVE KillAll(_, _)
KillAll(s, i) ==
  IF i > Len(s.servers) THEN s
  ELSE LET w == s.servers[i]
           n == Len(s.server[w].procs)
       IN IF n = 0 THEN KillAll(s, i + 1)
          ELSE KillAll([s EXCEPT !.server[w].procs[n].st =
                                    IF @ = "running" THEN "killed" ELSE @,
                                 !.server[w].connected = FALSE], i + 1)

\* A variant that starts the metrics afresh.
disconnectResetsMetrics(s) ==
  LET s1 == KillAll(stopHealthMonitoring(s), 1)
  IN Emit([s1 EXCEPT !.isConnected = FALSE, !.down = TRUE, !.metrics = NoMetrics],
          [type |-> "disconnected"])

disconnect(s) ==
  LET s1 == KillAll(stopHealthMonitoring(s), 1)
  IN Emit([s1 EXCEPT !.isConnected = FALSE, !.down = TRUE], [type |-> "disconnected"])

\* ---------------------------------------------------------------- bounds of a run
\* Calls a health run in flight may still issue: one per server after the one
\* it is probing.
RECURSIVE Reserved(_, _)
Reserved(s, ks) ==
  IF ks = {} THEN 0
  ELSE LET k == CHOOSE x \in ks : TRUE
       IN Reserved(s, ks \ {k}) +
          (IF s.calls[k].origin = "health" /\ s.calls[k].caller = "pending"
           THEN Cardinality(Servers) - Pos(s.servers, s.calls[k].server)
           ELSE 0)

RECURSIVE Spawned(_, _)
Spawned(s, ws) ==
  IF ws = {} THEN 0
  ELSE LET w == CHOOSE x \in ws : TRUE
       IN Len(s.server[w].procs) + Spawned(s, ws \ {w})

Fits(s) ==
  /\ s.userCalls + Reserved(s, DOMAIN s.calls) <= MaxUser
  /\ Spawned(s, Registered(s)) <= MaxSpawns
  /\ s.runCount <= MaxRuns

Do(s) == Fits(s) /\ Becomes(s)

\* ---------------------------------------------------------------- actions
AddServer(name) ==
  Do(addServer(World, name))

Connect ==
  Do(connect(World))

On(event) ==
  /\ ~errorListener
  /\ Do(on(World, event))

\* Node reports a failed spawn on the next tick, before any timer fires.
ProcessError(w, g) ==
  /\ w \in Registered(World)
  /\ g \in DOMAIN server[w].procs
  /\ server[w].procs[g].st = "running"
  /\ server[w].procs[g].startup
  /\ Do(OnProcessError(World, w, g))

StartupTimer(w, g) ==
  /\ w \in Registered(World)
  /\ g \in DOMAIN server[w].procs
  /\ server[w].procs[g].startup
  /\ Do(OnStartupTimer(World, w, g))

\* What a process of w may print in one chunk: a response with an id the
\* worker has seen, carrying a result or an error, or text that JSON.parse
\* rejects or that parses to null.
Chunks(w) ==
  [kind : {"response"}, id : 1..server[w].lastId, payload : {"result", "error"}]
    \cup {[kind |-> "malformed"]}

\* The 'data' handler of the stdout of process g of w, while the process runs.
Stdout(w, g, chunk) ==
  /\ w \in Registered(World)
  /\ g \in DOMAIN server[w].procs
  /\ server[w].procs[g].st = "running"
  /\ chunk \in Chunks(w)
  /\ Do(OnStdout(World, w, chunk))

\* Node may emit 'exit' while the stdio streams of the process are still open:
\* what the process, or a child that inherited its stdout, has written can
\* arrive after the exit handler ran. A process that was not spawned prints
\* nothing.
LateStdout(w, g, chunk) ==
  /\ w \in Registered(World)
  /\ g \in DOMAIN server[w].procs
  /\ server[w].procs[g].st \in {"exited", "killed"}
  /\ chunk \in Chunks(w)
  /\ Do(OnStdout(World, w, chunk))

TimeoutFires(k) ==
  /\ k \in DOMAIN calls
  /\ calls[k].timer
  /\ Becomes(OnTimeout(World, k))

\* Time passes.
Tick ==
  /\ now < MaxNow
  /\ Do([World EXCEPT !.now = @ + 1])

ProcessExit(w, g) ==
  /\ w \in Registered(World)
  /\ g \in DOMAIN server[w].procs
  /\ server[w].procs[g].st \in {"running", "killed"}
  /\ Do(OnExit(World, w, g))

ReconnectTimer(w, i) ==
  /\ w \in Registered(World)
  /\ i \in DOMAIN server[w].reconnectTimers
  /\ Do(OnReconnectTimer(World, w, i))

CallTool(w) ==
  Do(callTool(World, w))

ReadResource(w) ==
  Do(readResource(World, w))

AddServerWith(name, options) ==
  Do(addServerWith(World, name, options))

Disconnect ==
  Do(disconnect(World))

HealthTick ==
  /\ intervals > 0
  /\ Do(HealthLoop(World, 1))

MaxIssued == MaxUser + 2 * MaxSpawns

AnyChunk ==
  [kind : {"response"}, id : 1..MaxIssued, payload : {"result", "error"}]
    \cup {[kind |-> "malformed"]}

\* One worker, with everything that can happen to it; no listener for 'error'
\* is registered.
Next ==
  \/ AddServer("A")
  \/ Connect
  \/ \E g \in 1..MaxSpawns : StartupTimer("A", g)
  \/ \E g \in 1..MaxSpawns : \E chunk \in AnyChunk : Stdout("A", g, chunk)
  \/ \E k \in 1..MaxIssued : TimeoutFires(k)
  \/ \E g \in 1..MaxSpawns : ProcessExit("A", g)
  \/ \E i \in 1..MaxSpawns : ReconnectTimer("A", i)
  \/ CallTool("A")
  \/ Disconnect
  \/ HealthTick
  \/ \E g \in 1..MaxSpawns : ProcessError("A", g)

Spec == Init /\ [][Next]_vars

\* Two workers whose processes stay up.
NextTwo ==
  \/ \E w \in Servers : AddServer(w)
  \/ Connect
  \/ \E w \in Servers, g \in 1..MaxSpawns : StartupTimer(w, g)
  \/ \E w \in Servers, g \in 1..MaxSpawns : \E chunk \in AnyChunk : Stdout(w, g, chunk)
  \/ \E k \in 1..MaxIssued : TimeoutFires(k)
  \/ \E w \in Servers : CallTool(w)
  \/ \E w \in Servers : ReadResource(w)

InitTwo == Init /\ ~config.autoReconnect

SpecTwo == InitTwo /\ [][NextTwo]_vars

\* Two workers of which any may fail to spawn or to complete its handshake, with
\* or without a listener for 'error'.
NextFail ==
  \/ \E w \in Servers : AddServer(w)
  \/ On("error")
  \/ Connect
  \/ \E w \in Servers, g \in 1..MaxSpawns : ProcessError(w, g)
  \/ \E w \in Servers, g \in 1..MaxSpawns : StartupTimer(w, g)
  \/ \E w \in Servers, g \in 1..MaxSpawns : \E chunk \in AnyChunk : Stdout(w, g, chunk)
  \/ \E k \in 1..MaxIssued : TimeoutFires(k)

SpecFail == InitTwo /\ [][NextFail]_vars

\* One worker whose requests take time, and disconnect().
NextMetrics ==
  \/ AddServer("A")
  \/ Connect
  \/ \E g \in 1..MaxSpawns : StartupTimer("A", g)
  \/ \E g \in 1..MaxSpawns : \E chunk \in AnyChunk : Stdout("A", g, chunk)
  \/ \E k \in 1..MaxIssued : TimeoutFires(k)
  \/ CallTool("A")
  \/ Disconnect
  \/ Tick

SpecMetrics == InitTwo /\ [][NextMetrics]_vars

\* One worker that is connected once and may crash, and the timers of the event
\* loop: while a timeout timer is due, a timeout timer fires.
NextLive ==
  \/ AddServer("A")
  \/ Connect
  \/ \E g \in 1..MaxSpawns : StartupTimer("A", g)
  \/ \E g \in 1..MaxSpawns : \E chunk \in AnyChunk : Stdout("A", g, chunk)
  \/ \E k \in 1..MaxIssued : TimeoutFires(k)
  \/ \E g \in 1..MaxSpawns : ProcessExit("A", g)
  \/ CallTool("A")

FairSpec ==
  /\ InitTwo
  /\ [][NextLive]_vars
  /\ WF_vars(\E k \in 1..MaxIssued : TimeoutFires(k))

\* One worker whose process may exit with output still to be delivered.
NextLate ==
  \/ AddServer("A")
  \/ Connect
  \/ \E g \in 1..MaxSpawns : StartupTimer("A", g)
  \/ \E g \in 1..MaxSpawns : \E chunk \in AnyChunk : Stdout("A", g, chunk)
  \/ \E g \in 1..MaxSpawns : \E chunk \in AnyChunk : LateStdout("A", g, chunk)
  \/ \E k \in 1..MaxIssued : TimeoutFires(k)
  \/ \E g \in 1..MaxSpawns : ProcessExit("A", g)
  \/ \E i \in 1..MaxSpawns : ReconnectTimer("A", i)
  \/ Disconnect

SpecLate == Init /\ [][NextLate]_vars

\* One worker registered with a maxReconnectAttempts of its own, below the
\* client's.
FewAttempts == [maxReconnectAttempts : 0..(MaxAttempts - 1)]

NextFew ==
  \/ \E options \in FewAttempts : AddServerWith("A", options)
  \/ Connect
  \/ \E g \in 1..MaxSpawns : StartupTimer("A", g)
  \/ \E g \in 1..MaxSpawns : \E chunk \in AnyChunk : Stdout("A", g, chunk)
  \/ \E k \in 1..MaxIssued : TimeoutFires(k)
  \/ \E g \in 1..MaxSpawns : ProcessExit("A", g)
  \/ \E i \in 1..MaxSpawns : ReconnectTimer("A", i)
  \/ Disconnect

SpecFew == Init /\ [][NextFew]_vars

\* The application processing one user request that the LLM answered with a
\* tool call; what the client does with a call is one of the outcomes.
ClientUnchanged ==
  UNCHANGED <<config, servers, server, healthStatus, calls, messageId, metrics,
              isConnected, connectionPromise, runCount, run, allTools,
              allResources, healthCheckInterval, intervals, userCalls, down,
              errorListener, now, crashed>>

ExecuteMultiStepRequest(firstResult) ==
  /\ app.pc = "idle"
  /\ firstResult.type = "tool_call"
  /\ app' = executeMultiStepRequest(firstResult)
  /\ ClientUnchanged

LoopIteration(answer, outcome) ==
  /\ app.pc = "loop"
  /\ app' = LoopBody(app, answer, outcome)
  /\ ClientUnchanged

NextApp ==
  \/ \E firstResult \in LLMResults : ExecuteMultiStepRequest(firstResult)
  \/ \E answer \in LLMResults, outcome \in {"result", "thrown"} :
       LoopIteration(answer, outcome)

SpecApp == InitTwo /\ [][NextApp]_vars

\* ---------------------------------------------------------------- what a step may do
\* The state, with what the macrotask did to the outside, after each handler
\* that can run in the current state.
Procs(w) == IF w \in Registered(World) THEN DOMAIN server[w].procs ELSE {}

Outcomes ==
  {addServer(World, w) : w \in Servers}
    \cup {connect(World), disconnect(World), on(World, "error")}
    \cup UNION {{OnProcessError(World, w, g) :
                   g \in {x \in Procs(w) : /\ server[w].procs[x].st = "running"
                                            /\ server[w].procs[x].startup}} : w \in Servers}
    \cup {callTool(World, w) : w \in Servers}
    \cup {readResource(World, w) : w \in Servers}
    \cup UNION {{OnStartupTimer(World, w, g) :
                   g \in {x \in Procs(w) : server[w].procs[x].startup}} : w \in Servers}
    \cup UNION {{OnStdout(World, w, chunk) : chunk \in Chunks(w)} :
                  w \in {x \in Servers : \E g \in Procs(x) :
                                            server[x].procs[g].st \in {"running", "exited", "killed"}}}
    \cup {OnTimeout(World, k) : k \in {x \in DOMAIN calls : calls[x].timer}}
    \cup UNION {{OnExit(World, w, g) :
                   g \in {x \in Procs(w) : server[w].procs[x].st \in {"running", "killed"}}} : w \in Servers}
    \cup UNION {{OnReconnectTimer(World, w, i) : i \in DOMAIN server[w].reconnectTimers} :
                  w \in Registered(World)}
    \cup (IF intervals > 0 THEN {HealthLoop(World, 1)} ELSE {})

\* Call k is pending: its entry is in its worker's table and its caller waits.
Pending(k) ==
  /\ k \in DOMAIN calls
  /\ calls[k].caller = "pending"
  /\ calls[k].id \in DOMAIN server[calls[k].server].pendingRequests
  /\ server[calls[k].server].pendingRequests[calls[k].id] = k

Response(id, payload) == [kind |-> "response", id |-> id, payload |-> payload]

\* The entries of table m other than id are the entries of table n.
Removed(m, id, n) ==
  /\ (DOMAIN m) \ {id} = DOMAIN n
  /\ \A x \in DOMAIN n : m[x] = n[x]

\* ---------------------------------------------------------------- C1
C1_Once ==
  /\ \A k \in DOMAIN calls :
       /\ calls[k].caller = "pending" => Pending(k)
       /\ calls[k].caller # "pending" =>
            \A x \in DOMAIN server[calls[k].server].pendingRequests :
              server[calls[k].server].pendingRequests[x] # k
  /\ \A k \in DOMAIN calls :
       LET w == calls[k].server
           byTimeout == OnTimeout(World, k)
       IN /\ calls[k].timer /\ Pending(k) =>
               /\ byTimeout.settled = <<[call |-> k, as |-> "rejected", with |-> "timeout"]>>
               /\ calls[k].id \notin DOMAIN byTimeout.server[w].pendingRequests
          /\ calls[k].timer /\ ~Pending(k) =>
               /\ byTimeout.settled = <<>>
               /\ byTimeout.server = server
               /\ byTimeout.metrics = metrics
          /\ Pending(k) =>
               \A payload \in {"result", "error"} :
                 LET byResponse == OnStdout(World, w, Response(calls[k].id, payload))
                 IN /\ byResponse.settled[1] = [call |-> k, as |-> "resolved", with |-> payload]
                    /\ calls[k].id \notin DOMAIN byResponse.server[w].pendingRequests

C2_ResponseResolvesItsOwnCaller ==
  \A w \in Registered(World) :
    \A id \in DOMAIN server[w].pendingRequests :
      LET k == server[w].pendingRequests[id] IN
      /\ k \in DOMAIN calls
      /\ calls[k].id = id
      /\ calls[k].server = w
      /\ \A payload \in {"result", "error"} :
           LET o == OnStdout(World, w, Response(id, payload)) IN
           /\ o.settled = <<[call |-> k, as |-> "resolved", with |-> payload]>>
           /\ id \notin DOMAIN o.server[w].pendingRequests
           /\ \A x \in (DOMAIN server[w].pendingRequests) \ {id} :
                /\ x \in DOMAIN o.server[w].pendingRequests
                /\ o.server[w].pendingRequests[x] = server[w].pendingRequests[x]
           /\ \A k2 \in (DOMAIN calls) \ {k} : o.calls[k2] = calls[k2]

\* Of two requests outstanding on one worker the later one has been answered
\* and the earlier one still waits.
C2_Witness ==
  \E k1 \in DOMAIN calls : \E k2 \in DOMAIN calls :
    /\ k1 < k2
    /\ calls[k1].server = calls[k2].server
    /\ Pending(k1)
    /\ calls[k2].caller = "resolved"

\* ---------------------------------------------------------------- C3
\* C3: requests on different workers are independent. A request is written to
\* the worker it names and registered in that worker's table only; what a
\* worker's process prints settles callers of that worker only and leaves the
\* other workers' tables alone; two requests pending on different workers are
\* both resolved whichever response arrives first.
C3_WorkersIndependent ==
  /\ \A w \in Registered(World) : \A chunk \in Chunks(w) :
       LET o == OnStdout(World, w, chunk) IN
       /\ \A v \in Registered(World) \ {w} :
            o.server[v].pendingRequests = server[v].pendingRequests
       /\ \A i \in DOMAIN o.settled : calls[o.settled[i].call].server = w
  /\ \A w \in Registered(World) :
       \A o \in {callTool(World, w), readResource(World, w)} :
         o.thrown = "none" =>
           /\ Len(o.written) = 1
           /\ o.written[1].server = w
           /\ o.written[1].id \in DOMAIN o.server[w].pendingRequests
           /\ \A v \in Registered(World) \ {w} :
                o.server[v].pendingRequests = server[v].pendingRequests
  /\ \A k1 \in DOMAIN calls : \A k2 \in DOMAIN calls :
       (Pending(k1) /\ Pending(k2) /\ calls[k1].server # calls[k2].server) =>
         LET o1 == OnStdout(World, calls[k1].server, Response(calls[k1].id, "result"))
             o2 == OnStdout(o1, calls[k2].server, Response(calls[k2].id, "result"))
         IN /\ o1.calls[k1].caller = "resolved"
            /\ o1.calls[k2] = calls[k2]
            /\ o2.calls[k1].caller = "resolved"
            /\ o2.calls[k2].caller = "resolved"

\* A tool call and a resource read are pending on different workers.
C3_Witness ==
  \E k1 \in DOMAIN calls : \E k2 \in DOMAIN calls :
    /\ Pending(k1) /\ Pending(k2)
    /\ calls[k1].server # calls[k2].server
    /\ calls[k1].origin = "user" /\ calls[k2].origin = "user"

\* ---------------------------------------------------------------- C4
\* C4: when the timeout of a pending request fires, its entry is removed and
\* its caller rejected with a timeout error, and nothing else about the worker
\* changes: its process is not killed, its connected flag keeps its value, and
\* its other pending requests stay pending and are still resolved by their
\* responses.
C4_TimeoutRemovesOnlyItsEntry ==
  \A k \in DOMAIN calls :
    (Pending(k) /\ calls[k].timer) =>
      LET w == calls[k].server
          o == OnTimeout(World, k)
      IN /\ o.settled = <<[call |-> k, as |-> "rejected", with |-> "timeout"]>>
         /\ Removed(server[w].pendingRequests, calls[k].id, o.server[w].pendingRequests)
         /\ DOMAIN o.server[w].procs = DOMAIN server[w].procs
         /\ \A g \in DOMAIN server[w].procs :
              o.server[w].procs[g].st = server[w].procs[g].st
         /\ o.server[w].connected = server[w].connected
         /\ \A k2 \in (DOMAIN calls) \ {k} :
              /\ o.calls[k2] = calls[k2]
              /\ (Pending(k2) /\ calls[k2].server = w) =>
                   OnStdout(o, w, Response(calls[k2].id, "result")).settled
                     = <<o.settled[1], [call |-> k2, as |-> "resolved", with |-> "result"]>>

\* A timeout has fired and another request is pending on the worker, which is
\* connected and whose process runs.
C4_Witness ==
  /\ metrics.failedRequests > 0
  /\ \E k \in DOMAIN calls :
       /\ Pending(k)
       /\ server[calls[k].server].connected
       /\ server[calls[k].server].procs[Len(server[calls[k].server].procs)].st = "running"

\* ---------------------------------------------------------------- C5
\* C5: a response whose id has no entry in the worker's table (never issued,
\* already answered, or already timed out) is discarded: nothing of the state
\* changes, no metric, no health status, no connected flag, and no event is
\* emitted and no caller settled.
C5_UnknownIdDiscarded ==
  \A w \in Registered(World) :
    \A id \in (1..MaxIssued) \ DOMAIN server[w].pendingRequests :
      \A payload \in {"result", "error"} :
        OnStdout(World, w, Response(id, payload)) = World

\* The process of a worker runs, one request to it has been answered and one
\* has timed out, so that a second response to either has no entry.
C5_Witness ==
  /\ metrics.failedRequests > 0
  /\ metrics.successfulRequests > 0
  /\ \E w \in Registered(World) :
       /\ \E g \in Procs(w) : server[w].procs[g].st = "running"
       /\ \E id \in 1..server[w].lastId : id \notin DOMAIN server[w].pendingRequests

\* ---------------------------------------------------------------- C6
\* C6: the ids written to one worker are pairwise distinct and strictly
\* increasing in the order written, across the worker's processes: every
\* request written is numbered above every id written to that worker before,
\* and every id still in use is one that was written.
C6_IdsIncrease ==
  /\ \A w \in Registered(World) :
       /\ server[w].lastId < messageId
       /\ \A id \in DOMAIN server[w].pendingRequests : id <= server[w].lastId
  /\ \A k1 \in DOMAIN calls : \A k2 \in DOMAIN calls :
       (k1 < k2 /\ calls[k1].server = calls[k2].server) => calls[k1].id < calls[k2].id
  /\ \A o \in Outcomes :
       \A i \in DOMAIN o.written :
         LET wr == o.written[i] IN
         /\ wr.id > server[wr.server].lastId
         /\ wr.id <= o.server[wr.server].lastId
         /\ \A j \in 1..(i - 1) :
              o.written[j].server = wr.server => o.written[j].id < wr.id

\* A worker's second process has been sent a request after its first process
\* was sent some.
C6_Witness ==
  \E k \in DOMAIN calls :
    /\ calls[k].gen = 2
    /\ Len(server[calls[k].server].procs) = 2
    /\ calls[k].id > 2

\* ---------------------------------------------------------------- C7
\* C7: connect() called while a connection is in flight returns the promise of
\* the run in flight and starts nothing, whereas the call that starts the run
\* spawns one process per registered worker: both calls together spawn each
\* worker's process once.
C7_ConnectIdempotent ==
  /\ connectionPromise # 0 =>
       /\ ~isConnected
       /\ connect(World) = [World EXCEPT !.returned = connectionPromise, !.down = FALSE]
  /\ (connectionPromise = 0 /\ ~isConnected) =>
       LET o == connect(World) IN
       /\ o.returned = runCount + 1
       /\ \A w \in Registered(World) :
            Len(o.server[w].procs) = Len(server[w].procs) + 1
       /\ o.connectionPromise # 0 =>
            connect(o) = [o EXCEPT !.returned = o.returned]

\* A connection is in flight and its worker's process has been spawned.
C7_Witness ==
  /\ connectionPromise # 0
  /\ \E w \in Registered(World) : w \in DOMAIN run /\ Len(server[w].procs) = run[w]

\* ---------------------------------------------------------------- C8
\* C8: callTool or readResource on a registered worker before
\* connect() has completed (not yet called, or still in flight) fails with the
\* not-connected error and spawns no process.
C8_FailsBeforeConnectCompletes ==
  (runCount = 0 \/ connectionPromise # 0) =>
    \A w \in Registered(World) :
      \A o \in {callTool(World, w), readResource(World, w)} :
        /\ o.thrown = "NotConnected"
        /\ o.server = server

\* What sendRequestToServer looks at is the worker's own flag: a request to a
\* worker whose handshake has not completed fails with the not-connected
\* error, writes nothing and spawns no process, and a request to a worker
\* whose handshake has completed is written, whether or not connect() has
\* completed.
OwnFlagDecides ==
  \A w \in Registered(World) :
    \A o \in {callTool(World, w), readResource(World, w)} :
      IF server[w].connected
      THEN server[w].procs # <<>> =>
             /\ o.thrown = "none"
             /\ Len(o.written) = 1
             /\ o.server[w].procs = server[w].procs
      ELSE o = [World EXCEPT !.thrown = "NotConnected"]

\* ---------------------------------------------------------------- C9
\* C9: no request other than the two handshake requests (tools/list and
\* resources/list, sent with the connection check skipped) is ever written to
\* a worker whose connected flag is false.
C9_OnlyHandshakeWhenNotConnected ==
  \A o \in Outcomes :
    \A i \in DOMAIN o.written :
      \/ o.written[i].connected
      \/ /\ o.written[i].skip
         /\ o.written[i].method \in {"tools/list", "resources/list"}
         /\ \E k \in DOMAIN o.calls :
              /\ o.calls[k].id = o.written[i].id
              /\ o.calls[k].server = o.written[i].server
              /\ o.calls[k].origin \in {"init", "-"}

\* A request other than a handshake request is pending on a worker that is no
\* longer connected.
C9_Witness ==
  \E k \in DOMAIN calls :
    /\ Pending(k)
    /\ calls[k].origin \in {"user", "health"}
    /\ ~server[calls[k].server].connected

\* ---------------------------------------------------------------- C10
\* C10: for each spawn the startup timer's callback writes tools/list; the
\* resources/list request is written in the step that resolves tools/list with
\* a result, which does not yet mark the worker connected; the worker becomes
\* connected only in a step that resolves its handshake's resources/list with
\* a result, with both of its lists populated; if a handshake request times
\* out or is answered with an error payload that makes initialization fail,
\* the worker's flag keeps its value, the attempt is rejected, and a connect()
\* in flight that awaits it fails with an error naming the worker.
InitCall(k) ==
  /\ Pending(k)
  /\ calls[k].origin = "init"

C10_Handshake ==
  /\ \A w \in Registered(World) :
       \A g \in {x \in Procs(w) : server[w].procs[x].startup} :
         LET o == OnStartupTimer(World, w, g) IN
         /\ Len(o.written) = 1
         /\ o.written[1].server = w
         /\ o.written[1].method = "tools/list"
         /\ o.written[1].skip
         /\ o.server[w].connected = server[w].connected
  /\ \A k \in {x \in DOMAIN calls : InitCall(x)} :
       LET w == calls[k].server
           g == calls[k].gen
           ok == OnStdout(World, w, Response(calls[k].id, "result"))
       IN /\ server[w].procs[g].att = "pending"
          /\ calls[k].method \in {"tools/list", "resources/list"}
          /\ calls[k].method = "resources/list" => server[w].tools = ToolsOf(w)
          /\ calls[k].method = "tools/list" =>
               /\ Len(ok.written) = 1
               /\ ok.written[1].server = w
               /\ ok.written[1].method = "resources/list"
               /\ ok.written[1].skip
               /\ ok.server[w].connected = server[w].connected
               /\ ok.server[w].procs[g].att = "pending"
               /\ ok.server[w].tools = ToolsOf(w)
          /\ calls[k].method = "resources/list" =>
               /\ ok.written = <<>>
               /\ ok.server[w].connected
               /\ ok.server[w].procs[g].att = "resolved"
               /\ ok.server[w].tools = ToolsOf(w)
               /\ ok.server[w].resources = ResourcesOf(w)
  /\ \A o \in Outcomes :
       \A w \in Registered(World) :
         (~server[w].connected /\ o.server[w].connected) =>
           /\ o.server[w].tools = ToolsOf(w)
           /\ o.server[w].resources = ResourcesOf(w)
           /\ \E i \in DOMAIN o.settled :
                /\ o.settled[i].as = "resolved"
                /\ o.settled[i].with = "result"
                /\ calls[o.settled[i].call].server = w
                /\ calls[o.settled[i].call].origin = "init"
                /\ calls[o.settled[i].call].method = "resources/list"

C10_Failure ==
  \A k \in {x \in DOMAIN calls : InitCall(x)} :
    LET w == calls[k].server
        g == calls[k].gen
        awaited == connectionPromise # 0 /\ w \in DOMAIN run /\ run[w] = g
    IN \A o \in {OnStdout(World, w, Response(calls[k].id, "error"))}
                  \cup (IF calls[k].timer THEN {OnTimeout(World, k)} ELSE {}) :
         /\ o.server[w].connected = server[w].connected
         /\ o.server[w].procs[g].att = "rejected"
         /\ o.written = <<>>
         /\ awaited =>
              /\ o.connectionPromise = 0
              /\ ~o.isConnected
              /\ \E i \in DOMAIN o.emitted :
                   /\ o.emitted[i].type = "connectionFailed"
                   /\ o.emitted[i].error[1] = w

C10_HandshakeThenConnected ==
  C10_Handshake /\ C10_Failure

\* A worker's handshake has failed and the worker is not connected, after a
\* process of it was spawned and asked for its tools.
C10_Witness ==
  \E w \in Registered(World) :
    /\ ~server[w].connected
    /\ \E g \in Procs(w) :
         /\ server[w].procs[g].att = "rejected"
         /\ ~server[w].procs[g].startup
    /\ server[w].lastId > 0

\* ---------------------------------------------------------------- C11
\* C11: whenever a process of a worker exits, whatever its state and whatever
\* the reason, afterwards the worker's connected flag is false, its health
\* record is unhealthy with the exit as the error, and the handler, which runs
\* once per process, has emitted exactly one serverDisconnected event, naming
\* the worker.
C11_ExitMarksDisconnected ==
  \A w \in Registered(World) :
    \A g \in {x \in Procs(w) : server[w].procs[x].st \in {"running", "killed"}} :
      LET o == OnExit(World, w, g)
          events == {i \in DOMAIN o.emitted : o.emitted[i].type = "serverDisconnected"}
      IN /\ ~o.server[w].connected
         /\ o.healthStatus[w] = [healthy |-> FALSE, error |-> <<w, "exited">>]
         /\ Cardinality(events) = 1
         /\ \A i \in events : o.emitted[i].server = w
         /\ o.server[w].procs[g].st = "exited"

\* The process of a worker that had completed its handshake has exited.
C11_Witness ==
  \E w \in Registered(World) :
    /\ \E g \in Procs(w) : server[w].procs[g].st = "exited"
    /\ server[w].resources # <<>>
    /\ ~server[w].connected
    /\ healthStatus[w] = [healthy |-> FALSE, error |-> <<w, "exited">>]

\* ---------------------------------------------------------------- C12
\* C12: when a process of a worker exits while autoReconnect is true and the
\* worker's attempt counter is below its maximum, the exit handler counts the
\* attempt and starts exactly one timer, whose delay is reconnectDelay times
\* the counter after the increment (1, 2, ...), and spawns nothing itself;
\* that timer's callback spawns exactly one process of the worker; and no
\* handler cancels a reconnect timer: a timer goes away only by firing, which
\* spawns.
WillReconnect(w) ==
  /\ config.autoReconnect
  /\ server[w].reconnectAttempts < server[w].maxReconnectAttempts

C12_OneReconnectPerExit ==
  /\ \A w \in Registered(World) :
       \A g \in {x \in Procs(w) : server[w].procs[x].st \in {"running", "killed"}} :
         WillReconnect(w) =>
           LET o == OnExit(World, w, g)
               n == server[w].reconnectAttempts + 1
               r == OnReconnectTimer(o, w, Len(o.server[w].reconnectTimers))
           IN /\ o.server[w].reconnectAttempts = n
              /\ o.server[w].reconnectTimers
                   = Append(server[w].reconnectTimers, reconnectDelay * n)
              /\ n = 1 => o.server[w].reconnectTimers[Len(o.server[w].reconnectTimers)] = 1000
              /\ n = 2 => o.server[w].reconnectTimers[Len(o.server[w].reconnectTimers)] = 2000
              /\ Len(o.server[w].procs) = Len(server[w].procs)
              /\ Len(r.server[w].procs) = Len(server[w].procs) + 1
              /\ r.server[w].procs[Len(r.server[w].procs)]
                   = [st |-> "running", startup |-> TRUE, att |-> "pending"]
              /\ r.server[w].reconnectTimers = server[w].reconnectTimers
              /\ \A v \in Registered(World) \ {w} : r.server[v] = server[v]
  /\ \A o \in Outcomes :
       \A w \in Registered(World) :
         /\ Len(o.server[w].reconnectTimers) >= Len(server[w].reconnectTimers) - 1
         /\ Len(o.server[w].reconnectTimers) < Len(server[w].reconnectTimers) =>
              Len(o.server[w].procs) = Len(server[w].procs) + 1

\* The first reconnect of a worker has spawned its process, that process has
\* exited too, and the second reconnect is scheduled, twice the delay ahead.
C12_Witness ==
  \E w \in Registered(World) :
    /\ config.autoReconnect
    /\ Len(server[w].procs) = 2
    /\ server[w].procs[2].st = "exited"
    /\ server[w].reconnectAttempts = 2
    /\ server[w].reconnectTimers = <<2 * reconnectDelay>>

\* ---------------------------------------------------------------- C13
\* C13: when the handshake of a spawn succeeds, of a reconnect in particular,
\* the worker's attempt counter is 0 and the worker is connected and healthy,
\* so that the next exit of a process of the worker, with autoReconnect, counts
\* attempt 1 and schedules the reconnect one reconnectDelay ahead.
C13_ReconnectResetsCounter ==
  \A k \in {x \in DOMAIN calls : InitCall(x) /\ calls[x].method = "resources/list"} :
    LET w == calls[k].server
        ok == OnStdout(World, w, Response(calls[k].id, "result"))
    IN /\ ok.server[w].reconnectAttempts = 0
       /\ ok.server[w].connected
       /\ ok.healthStatus[w] = [healthy |-> TRUE, error |-> <<>>]
       /\ \A g \in {x \in DOMAIN ok.server[w].procs : ok.server[w].procs[x].st \in {"running", "killed"}} :
            LET e == OnExit(ok, w, g) IN
            config.autoReconnect =>
              /\ e.server[w].reconnectAttempts = 1
              /\ e.server[w].reconnectTimers
                   = Append(server[w].reconnectTimers, reconnectDelay)

\* The only connect() of the run spawned a process that has exited, and the
\* process the reconnect spawned has completed its handshake.
C13_Witness ==
  \E w \in Registered(World) :
    /\ config.autoReconnect
    /\ runCount = 1
    /\ Len(server[w].procs) = 2
    /\ server[w].procs[1].st = "exited"
    /\ server[w].procs[2].att = "resolved"
    /\ server[w].connected
    /\ server[w].reconnectAttempts = 0

\* ---------------------------------------------------------------- C14
\* C14: when a process of a worker exits while autoReconnect is false, or
\* while the worker's attempt counter equals its maximum, the exit handler
\* schedules no reconnect and spawns nothing, and from then on, until the
\* caller calls connect() again, the worker stays disconnected and no process
\* is spawned for it.
C14_NoReconnectStaysDisconnected ==
  /\ \A w \in Registered(World) :
       \A g \in {x \in Procs(w) : server[w].procs[x].st \in {"running", "killed"}} :
         ~WillReconnect(w) =>
           LET o == OnExit(World, w, g) IN
           /\ o.server[w].reconnectTimers = server[w].reconnectTimers
           /\ o.server[w].reconnectAttempts = server[w].reconnectAttempts
           /\ Len(o.server[w].procs) = Len(server[w].procs)
           /\ ~o.server[w].connected
  /\ \A w \in Registered(World) :
       server[w].left # 0 =>
         /\ ~server[w].connected
         /\ Len(server[w].procs) = server[w].left

\* ---------------------------------------------------------------- C15
\* C15: disconnect() called while requests are pending empties every worker's
\* table, and none of the callers that were waiting is resolved or rejected
\* afterwards, neither by a timeout timer nor by a response.
C15_DisconnectAbandons ==
  LET d == disconnect(World) IN
  /\ \A w \in Registered(World) : DOMAIN d.server[w].pendingRequests = {}
  /\ d.settled = <<>>
  /\ \A k \in {x \in DOMAIN calls : Pending(x)} :
       /\ calls[k].timer => OnTimeout(d, k).settled = <<>>
       /\ \A payload \in {"result", "error"} :
            OnStdout(d, calls[k].server, Response(calls[k].id, payload)).settled = <<>>

\* ---------------------------------------------------------------- C16
\* C16: from the return of disconnect() until connect() is called again, no
\* process of any worker runs (none is left running and none is spawned),
\* every worker's connected flag is false and the client's isConnected flag is
\* false, whatever autoReconnect is.
C16_NothingRunsAfterDisconnect ==
  down =>
    /\ ~isConnected
    /\ \A w \in Registered(World) :
         /\ ~server[w].connected
         /\ \A g \in Procs(w) : server[w].procs[g].st # "running"

\* ---------------------------------------------------------------- C17
\* C17: from the return of disconnect() until connect() is called again, no
\* probe timer is active and no handler issues a health probe, also when
\* disconnect() was called while a connect() was in flight.
C17_NoProbesAfterDisconnect ==
  down =>
    /\ intervals = 0
    /\ ~healthCheckInterval
    /\ \A o \in Outcomes :
         \A k \in (DOMAIN o.calls) \ (DOMAIN calls) : o.calls[k].origin # "health"

\* ---------------------------------------------------------------- C18
\* C18: in the step in which connect() succeeds, getAllTools() and
\* getAllResources() become the concatenation, in registration order, of each
\* worker's own list in its own order, each entry stamped with its worker;
\* the list of a worker the connect() has spawned is what the worker answered:
\* A with 2 tools and B with 3 give 5 entries, and the tool both of them have
\* is there twice.
OwnEntries(s, field, i) ==
  LET w == s.servers[i]
      own == IF field = "tools" THEN s.server[w].tools ELSE s.server[w].resources
  IN [j \in 1..Len(own) |-> [name |-> own[j], server |-> w]]

Concatenated(s, field) ==
  CASE Len(s.servers) = 0 -> <<>>
    [] Len(s.servers) = 1 -> OwnEntries(s, field, 1)
    [] Len(s.servers) = 2 -> OwnEntries(s, field, 1) \o OwnEntries(s, field, 2)

C18_CatalogIsConcatenation ==
  \A o \in Outcomes :
    (~isConnected /\ o.isConnected) =>
      /\ getAllTools(o) = Concatenated(o, "tools")
      /\ getAllResources(o) = Concatenated(o, "resources")
      /\ \A w \in DOMAIN run :
           /\ o.server[w].tools = ToolsOf(w)
           /\ o.server[w].resources = ResourcesOf(w)
      /\ (o.servers = <<"A", "B">> /\ DOMAIN run = {"A", "B"}) =>
           /\ Len(getAllTools(o)) = 5
           /\ getAllTools(o) = <<[name |-> "a1", server |-> "A"], [name |-> "a2", server |-> "A"],
                                 [name |-> "a1", server |-> "B"], [name |-> "b2", server |-> "B"],
                                 [name |-> "b3", server |-> "B"]>>
           /\ getAllResources(o) = <<[name |-> "ra", server |-> "A"], [name |-> "rb", server |-> "B"]>>
      /\ (o.servers = <<"B", "A">> /\ DOMAIN run = {"A", "B"}) =>
           getAllTools(o) = <<[name |-> "a1", server |-> "B"], [name |-> "b2", server |-> "B"],
                              [name |-> "b3", server |-> "B"], [name |-> "a1", server |-> "A"],
                              [name |-> "a2", server |-> "A"]>>

\* connect() has succeeded with B registered before A, and the catalog has the
\* five entries.
C18_Witness ==
  /\ isConnected
  /\ servers = <<"B", "A">>
  /\ Len(getAllTools(World)) = 5
  /\ getAllTools(World)[1].server = "B"

\* ---------------------------------------------------------------- C19
\* C19: whenever a step changes a worker's catalog or completes a worker's
\* handshake, through the initial connect or through a reconnect, the global
\* catalog afterwards is the concatenation, in registration order, of the
\* entries of exactly the workers that are connected.
EntriesIfConnected(s, field, i) ==
  IF s.server[s.servers[i]].connected THEN OwnEntries(s, field, i) ELSE <<>>

ConnectedConcatenated(s, field) ==
  CASE Len(s.servers) = 0 -> <<>>
    [] Len(s.servers) = 1 -> EntriesIfConnected(s, field, 1)
    [] Len(s.servers) = 2 ->
         EntriesIfConnected(s, field, 1) \o EntriesIfConnected(s, field, 2)

CatalogChanges(o) ==
  \E w \in Registered(World) :
    \/ o.server[w].tools # server[w].tools
    \/ o.server[w].resources # server[w].resources
    \/ \E i \in DOMAIN o.emitted :
         o.emitted[i] = [type |-> "serverInitialized", server |-> w]

C19_CatalogFollowsWorkers ==
  \A o \in Outcomes :
    CatalogChanges(o) =>
      /\ getAllTools(o) = ConnectedConcatenated(o, "tools")
      /\ getAllResources(o) = ConnectedConcatenated(o, "resources")

\* ---------------------------------------------------------------- C20
\* The ways a worker's connection attempt can fail in the current state: its
\* process fails to spawn, or a handshake request of it times out or is
\* answered with an error payload. Each is the worker, the process, and the
\* state the failure leaves.
Failures ==
  UNION {{[server |-> w, gen |-> g, after |-> OnProcessError(World, w, g)] :
            g \in {x \in Procs(w) : /\ server[w].procs[x].st = "running"
                                     /\ server[w].procs[x].startup}} :
           w \in Registered(World)}
    \cup UNION {{[server |-> calls[k].server, gen |-> calls[k].gen, after |-> o] :
                   o \in {OnStdout(World, calls[k].server, Response(calls[k].id, "error"))}
                           \cup (IF calls[k].timer THEN {OnTimeout(World, k)} ELSE {})} :
                  k \in {x \in DOMAIN calls : InitCall(x)}}

\* C20: when a worker fails to spawn or to complete its handshake during
\* connect(), the client keeps running, the connect() that awaits the worker
\* fails, and no sibling is touched: its processes, its flag, its pending
\* requests and its lists are what they were; and a sibling whose handshake
\* then succeeds becomes connected with its lists populated.
C20_FailureLeavesSiblings ==
  /\ \A f \in Failures :
       LET w == f.server
           o == f.after
           awaited == /\ connectionPromise # 0
                      /\ w \in DOMAIN run
                      /\ run[w] = f.gen
                      /\ server[w].procs[f.gen].att = "pending"
       IN /\ ~o.crashed
          /\ awaited =>
               /\ o.connectionPromise = 0
               /\ ~o.isConnected
               /\ \E i \in DOMAIN o.emitted : o.emitted[i].type = "connectionFailed"
          /\ \A v \in Registered(World) \ {w} : o.server[v] = server[v]
  /\ \A k \in {x \in DOMAIN calls : InitCall(x) /\ calls[x].method = "resources/list"} :
       LET v == calls[k].server
           ok == OnStdout(World, v, Response(calls[k].id, "result"))
       IN /\ ok.server[v].connected
          /\ ok.server[v].tools = ToolsOf(v)
          /\ ok.server[v].resources = ResourcesOf(v)

\* ---------------------------------------------------------------- C21
\* The step that ends in o makes the connect() in flight fail.
ConnectFails(o) ==
  /\ connectionPromise # 0
  /\ o.connectionPromise = 0
  /\ \E i \in DOMAIN o.emitted : o.emitted[i].type = "connectionFailed"

\* C21: connect() fails only once the attempt of every worker of the run is
\* settled, and the error of the connectionFailed event names every worker
\* whose attempt was rejected.
C21_FailsWithEveryReason ==
  \A o \in Outcomes :
    ConnectFails(o) =>
      /\ \A w \in DOMAIN run : o.server[w].procs[run[w]].att # "pending"
      /\ \A i \in DOMAIN o.emitted :
           o.emitted[i].type = "connectionFailed" =>
             \A w \in DOMAIN run :
               o.server[w].procs[run[w]].att = "rejected" =>
                 \E j \in DOMAIN o.emitted[i].error : o.emitted[i].error[j] = w

\* ---------------------------------------------------------------- C22
\* The stdout 'data' handler of a process of w, from the bytes of the chunk.
OnData(s, w, data) == OnStdout(s, w, JSONparse(data))

\* In o call k has been resolved by its response and its entry is gone.
ResolvedIn(o, k) ==
  /\ ~o.crashed
  /\ calls[k].id \notin DOMAIN o.server[calls[k].server].pendingRequests
  /\ \E i \in DOMAIN o.settled : o.settled[i] = [call |-> k, as |-> "resolved", with |-> "result"]

\* C22: every complete response line resolves its request however the bytes
\* are grouped into chunks: the lines of two pending requests delivered in one
\* chunk resolve both, and a line delivered in two chunks resolves its request
\* when the second chunk arrives.
C22_LinesWhateverTheChunks ==
  \A k \in {x \in DOMAIN calls : Pending(x)} :
    LET w == calls[k].server
        head == OnData(World, w, <<LineHead(calls[k].id, "result")>>)
        rest == OnData([head EXCEPT !.settled = <<>>], w, <<LineTail(calls[k].id, "result")>>)
    IN /\ ResolvedIn(OnData(World, w, <<Line(calls[k].id, "result")>>), k)
       /\ ResolvedIn(rest, k)
       /\ \A j \in {x \in DOMAIN calls : Pending(x) /\ x # k /\ calls[x].server = w} :
            LET both == OnData(World, w, <<Line(calls[k].id, "result"),
                                           Line(calls[j].id, "result")>>)
            IN ResolvedIn(both, k) /\ ResolvedIn(both, j)

\* ---------------------------------------------------------------- C23
\* C23: an undecodable line printed by a process of a worker is reported as
\* one error event and discarded: the client keeps running whether or not a
\* listener for 'error' is registered, no table and no caller changes, and
\* every request pending on the worker is still resolved by its own response,
\* delivered after the line or in one chunk with it.
C23_UndecodableLineDiscarded ==
  \A w \in {x \in Registered(World) : \E g \in Procs(x) : server[x].procs[g].st = "running"} :
    LET o == OnData(World, w, <<Undecodable>>)
    IN /\ ~o.crashed
       /\ o.emitted = <<[type |-> "error", server |-> w]>>
       /\ o.server = server
       /\ o.calls = calls
       /\ o.settled = <<>>
       /\ \A k \in {x \in DOMAIN calls : Pending(x) /\ calls[x].server = w} :
            /\ ResolvedIn(OnData([o EXCEPT !.emitted = <<>>], w,
                                  <<Line(calls[k].id, "result")>>), k)
            /\ ResolvedIn(OnData(World, w, <<Undecodable, Line(calls[k].id, "result")>>), k)

\* ---------------------------------------------------------------- C24
\* C24: when a worker answers a request of callTool or readResource with an
\* error response, that request fails: its caller is rejected and it is
\* counted once as failed and not as successful, while the worker's flag, its
\* processes and its other pending requests are what they were.
C24_ErrorResponseRejects ==
  \A k \in {x \in DOMAIN calls : Pending(x) /\ calls[x].origin = "user"} :
    LET w == calls[k].server
        o == OnStdout(World, w, Response(calls[k].id, "error"))
    IN /\ Len(o.settled) = 1
       /\ o.settled[1].call = k
       /\ o.settled[1].as = "rejected"
       /\ o.metrics.failedRequests = metrics.failedRequests + 1
       /\ o.metrics.successfulRequests = metrics.successfulRequests
       /\ o.server[w].connected = server[w].connected
       /\ o.server[w].procs = server[w].procs
       /\ Removed(server[w].pendingRequests, calls[k].id, o.server[w].pendingRequests)

\* ---------------------------------------------------------------- C25
\* C25: callTool or readResource that names a worker that is not registered,
\* or one whose connected flag is false, fails at once with the error of its
\* case and changes nothing: nothing is written, no entry and no timer is
\* created, no counter and no health record changes.
C25_FailsFastUnchanged ==
  \A w \in Servers :
    (w \notin Registered(World) \/ ~server[w].connected) =>
      \A o \in {callTool(World, w), readResource(World, w)} :
        /\ o.thrown = IF w \in Registered(World) THEN "NotConnected" ELSE "NotFound"
        /\ o.written = <<>>
        /\ o.calls = calls
        /\ o.server = server
        /\ o.metrics = metrics
        /\ o.healthStatus = healthStatus
        /\ [o EXCEPT !.thrown = "none"] = World

\* A worker that served a request has exited and is not connected, and
\* another name is not registered.
C25_Witness ==
  /\ "B" \notin Registered(World)
  /\ "A" \in Registered(World)
  /\ ~server["A"].connected
  /\ \E g \in Procs("A") : server["A"].procs[g].st = "exited"
  /\ "A" \in DOMAIN healthStatus
  /\ metrics.successfulRequests > 2

\* ---------------------------------------------------------------- C26
\* The callers that a step settles as resolved, and as rejected.
SettledAs(o, as) == Cardinality({i \in DOMAIN o.settled : o.settled[i].as = as})

\* C26: each request that completes adds one to exactly one counter: a step
\* adds to successfulRequests the number of requests it resolves and to
\* failedRequests the number of requests it rejects, a timeout included; so the
\* two counters together never exceed totalRequests and equal it when no
\* request is pending.
C26_OneCounterPerRequest ==
  /\ \A o \in Outcomes :
       /\ o.metrics.successfulRequests = metrics.successfulRequests + SettledAs(o, "resolved")
       /\ o.metrics.failedRequests = metrics.failedRequests + SettledAs(o, "rejected")
  /\ metrics.successfulRequests + metrics.failedRequests <= metrics.totalRequests
  /\ (\A k \in DOMAIN calls : calls[k].caller # "pending") =>
       metrics.successfulRequests + metrics.failedRequests = metrics.totalRequests

\* ---------------------------------------------------------------- C27
\* The sequence before is the beginning of the sequence after.
Extends(after, before) ==
  /\ Len(after) >= Len(before)
  /\ SubSeq(after, 1, Len(before)) = before

\* C27: no operation and no handler resets or decreases a counter of the
\* metrics or takes a response time away, and getMetrics() right after
\* disconnect() returns what it returned right before.
C27_MetricsOnlyGrow ==
  /\ \A o \in Outcomes :
       /\ o.metrics.totalRequests >= metrics.totalRequests
       /\ o.metrics.successfulRequests >= metrics.successfulRequests
       /\ o.metrics.failedRequests >= metrics.failedRequests
       /\ Extends(o.metrics.responseTimes, metrics.responseTimes)
  /\ getMetrics(disconnect(World)) = getMetrics(World)

\* disconnect() has been called after a request succeeded, having taken time,
\* and another failed.
C27_Witness ==
  /\ down
  /\ metrics.failedRequests > 0
  /\ \E i \in DOMAIN metrics.responseTimes : metrics.responseTimes[i] > 0

\* ---------------------------------------------------------------- C28
\* The quotient q is the arithmetic mean of the numbers of seq.
MeanOf(q, seq) ==
  /\ q.den > 0
  /\ q.num * Len(seq) = q.den * Reduce(seq, 1, 0)

\* C28: whenever a response time has been recorded, averageResponseTime is
\* the arithmetic mean of all the response times recorded since construction;
\* ten response times of 100 average to exactly 100; and a request that fails,
\* by its timeout or by an error response, changes neither the average nor the
\* response times.
C28_AverageIsMean ==
  /\ metrics.responseTimes # <<>> =>
       MeanOf(metrics.averageResponseTime, metrics.responseTimes)
  /\ metrics.responseTimes = <<>> => metrics.averageResponseTime = Quotient(0, 1)
  /\ Average([i \in 1..10 |-> 100]) = Quotient(10 * 100, 10)
  /\ \A k \in {x \in DOMAIN calls : Pending(x)} :
       \A o \in {OnStdout(World, calls[k].server, Response(calls[k].id, "error"))}
                 \cup (IF calls[k].timer THEN {OnTimeout(World, k)} ELSE {}) :
         /\ o.metrics.averageResponseTime = metrics.averageResponseTime
         /\ o.metrics.responseTimes = metrics.responseTimes

\* ---------------------------------------------------------------- C29
\* C29: from the success of connect() until disconnect() is called, that is
\* while isConnected is set, the interval timer of the health checks is
\* active, whatever the configuration and whether or not callers make requests.
C29_MonitorRunsWhileConnected ==
  isConnected => (healthCheckInterval /\ intervals > 0)

\* ---------------------------------------------------------------- C30
\* What the monitor must leave alone: the processes, the connected flags, the
\* reconnect counters and the reconnect timers of every worker.
MonitorOnlyReports(o) ==
  \A w \in Registered(World) :
    /\ o.server[w].procs = server[w].procs
    /\ o.server[w].connected = server[w].connected
    /\ o.server[w].reconnectAttempts = server[w].reconnectAttempts
    /\ o.server[w].reconnectTimers = server[w].reconnectTimers

\* C30: a health-check tick writes one probe to a worker only if the worker is
\* connected, and writes one when the only registered worker is connected; a
\* probe answered with a result sets the worker's record to healthy; a probe
\* that fails, by its timeout or by an error response, sets the record to
\* unhealthy and emits serverUnhealthy; and none of these steps kills or
\* spawns a process or changes a connected flag or a reconnect counter.
C30_MonitorProbesAndReports ==
  /\ intervals > 0 =>
       LET o == HealthLoop(World, 1)
       IN /\ \A i \in DOMAIN o.written :
               /\ server[o.written[i].server].connected
               /\ o.written[i].method = "tools/call"
               /\ \A j \in DOMAIN o.written :
                    o.written[j].server = o.written[i].server => j = i
          /\ \A w \in Registered(World) :
               (server[w].connected /\ servers = <<w>>) => Len(o.written) = 1
          /\ MonitorOnlyReports(o)
  /\ \A k \in {x \in DOMAIN calls : Pending(x) /\ calls[x].origin = "health"} :
       LET w == calls[k].server
           ok == OnStdout(World, w, Response(calls[k].id, "result"))
       IN /\ ok.healthStatus[w] = [healthy |-> TRUE, error |-> <<>>]
          /\ MonitorOnlyReports(ok)
          /\ \A o \in {OnStdout(World, w, Response(calls[k].id, "error"))}
                        \cup (IF calls[k].timer THEN {OnTimeout(World, k)} ELSE {}) :
               /\ ~o.healthStatus[w].healthy
               /\ \E i \in DOMAIN o.emitted :
                    o.emitted[i] = [type |-> "serverUnhealthy", server |-> w]
               /\ MonitorOnlyReports(o)

\* ---------------------------------------------------------------- C31
\* C31: at most one interval timer of the health checks is active, and one is
\* active exactly while healthCheckInterval is set; starting the monitor, once
\* or twice in a row, leaves exactly one; stopping it when it is not started
\* changes nothing; and after a stop none is active.
C31_MonitorStartStop ==
  LET once == startHealthMonitoring(World)
      twice == startHealthMonitoring(once)
  IN /\ intervals = IF healthCheckInterval THEN 1 ELSE 0
     /\ once.intervals = 1 /\ once.healthCheckInterval
     /\ twice = once
     /\ ~healthCheckInterval => stopHealthMonitoring(World) = World
     /\ \A s \in {World, once, twice} :
          LET stopped == stopHealthMonitoring(s)
          IN /\ stopped.intervals = 0
             /\ ~stopped.healthCheckInterval
             /\ stopHealthMonitoring(stopped) = stopped

\* The monitor runs, started by the second connect() after a disconnect()
\* stopped the one the first connect() had started.
C31_Witness ==
  /\ healthCheckInterval
  /\ intervals = 1
  /\ isConnected
  /\ runCount > 1

\* ---------------------------------------------------------------- C32
\* C32: addServer with a registered name throws, emits nothing and changes
\* nothing: not the worker's record, its health record or the catalog; and
\* each registered name has one place in the order of registration, one
\* record and one health record, and no other name has any.
C32_OneRecordPerName ==
  /\ \A name \in Registered(World) :
       LET o == addServer(World, name)
       IN /\ o.thrown = "AlreadyExists"
          /\ o.emitted = <<>>
          /\ o.server = server
          /\ o.healthStatus = healthStatus
          /\ o.allTools = allTools /\ o.allResources = allResources
          /\ [o EXCEPT !.thrown = "none"] = World
  /\ \A i \in DOMAIN servers : \A j \in DOMAIN servers : servers[i] = servers[j] => i = j
  /\ DOMAIN healthStatus = Registered(World)
  /\ \A name \in Servers : server[name].registered <=> name \in Registered(World)

\* Both names are registered and connected, healthy, with their entries in the
\* catalog.
C32_Witness ==
  /\ Registered(World) = Servers
  /\ isConnected
  /\ allTools # <<>>
  /\ \A name \in Servers :
       /\ server[name].connected
       /\ healthStatus[name].healthy

\* ---------------------------------------------------------------- C33
\* Worker w has emitted serverInitialized in an earlier step: initializeServer
\* stores the worker's resources right before it emits the event, and nothing
\* takes them away.
WasInitialized(w) == w \in Registered(World) /\ server[w].resources # <<>>

\* C33: in the events of every step, the connected event comes only when every
\* registered worker has emitted serverInitialized, in an earlier step or
\* earlier in this one; toolCalled and resourceRead come after the
\* requestCompleted of their call; and a worker's serverInitialized never
\* comes before a serverDisconnected of the same step.
C33_EventsInCausalOrder ==
  \A o \in Outcomes :
    \A i \in DOMAIN o.emitted :
      /\ o.emitted[i].type = "connected" =>
           \A w \in Registered(o) :
             \/ WasInitialized(w)
             \/ \E j \in 1..(i - 1) :
                  o.emitted[j] = [type |-> "serverInitialized", server |-> w]
      /\ o.emitted[i].type \in {"toolCalled", "resourceRead"} =>
           \E j \in 1..(i - 1) :
             /\ o.emitted[j].type = "requestCompleted"
             /\ o.emitted[j].server = o.emitted[i].server
             /\ o.emitted[j].success
      /\ o.emitted[i].type = "serverDisconnected" =>
           \A j \in 1..(i - 1) :
             ~(/\ o.emitted[j].type = "serverInitialized"
               /\ o.emitted[j].server = o.emitted[i].server)

\* ---------------------------------------------------------------- C34
\* C34: at most one process of a worker is alive at any time: nothing spawns
\* a process for a worker that has one running.
C34_OneLiveProcess ==
  \A w \in Registered(World) :
    \A g \in Procs(w) : \A h \in Procs(w) :
      (server[w].procs[g].st = "running" /\ server[w].procs[h].st = "running") => g = h

\* ---------------------------------------------------------------- C35
\* The process that server.process refers to: the one spawned last.
Current(s, w) == s.server[w].procs[Len(s.server[w].procs)]

\* C35: a worker is never marked connected while its current process has
\* exited or could not be spawned.
C35_ConnectedHasLiveProcess ==
  \A w \in Registered(World) :
    server[w].connected =>
      /\ server[w].procs # <<>>
      /\ Current(World, w).st \notin {"exited", "failed"}

\* ---------------------------------------------------------------- C36
\* C36: in every reachable state the reconnect attempt counter of each worker
\* lies between 0 and the worker's maxReconnectAttempts; a step leaves the
\* counter alone, or counts one reconnect that it schedules while the counter is
\* below the maximum, or resets it to 0 when a handshake succeeded.
C36_AttemptsBounded ==
  /\ \A w \in Registered(World) :
       /\ server[w].reconnectAttempts >= 0
       /\ server[w].reconnectAttempts <= server[w].maxReconnectAttempts
  /\ \A o \in Outcomes : \A w \in Registered(World) :
       ~o.crashed =>
         \/ o.server[w].reconnectAttempts = server[w].reconnectAttempts
         \/ /\ server[w].reconnectAttempts < server[w].maxReconnectAttempts
            /\ o.server[w].reconnectAttempts = server[w].reconnectAttempts + 1
            /\ Len(o.server[w].reconnectTimers) = Len(server[w].reconnectTimers) + 1
         \/ /\ o.server[w].reconnectAttempts = 0
            /\ o.server[w].connected

\* The worker used up its reconnects, and an exit after that scheduled none.
C36_Witness ==
  \E w \in Registered(World) :
    /\ config.autoReconnect
    /\ server[w].maxReconnectAttempts > 0
    /\ server[w].reconnectAttempts = server[w].maxReconnectAttempts
    /\ server[w].left # 0

\* ---------------------------------------------------------------- C37
\* C37: whenever the client's isConnected flag is true, the connected flag of
\* every registered worker is true.
C37_ConnectedMeansAll ==
  isConnected => \A w \in Registered(World) : server[w].connected

\* ---------------------------------------------------------------- C38
\* C38: in every reachable state a worker whose connected flag is false has an
\* unhealthy health record, also right after disconnect() and right after its
\* registration.
C38_HealthyIsConnected ==
  /\ \A w \in Registered(World) :
       ~server[w].connected => ~healthStatus[w].healthy
  /\ \A o \in {disconnect(World)} \cup {addServer(World, w) : w \in Servers} :
       \A w \in Registered(o) :
         ~o.server[w].connected => ~o.healthStatus[w].healthy

\* ---------------------------------------------------------------- C39
IsRequestCompleted(e) == e.type = "requestCompleted"

\* The events of step o that report a completed request are, in order, one for
\* each caller the step settles: of the call's worker and method, with success
\* exactly when the caller was resolved, and a rejection carries its error; the
\* callers settled are distinct and were waiting; a call that throws before it
\* is sent writes nothing and reports nothing.
OneEventPerSettle(o) ==
  LET completed == SelectSeq(o.emitted, IsRequestCompleted)
  IN /\ Len(completed) = Len(o.settled)
     /\ \A i \in DOMAIN o.settled :
          LET k == o.settled[i].call
          IN /\ Pending(k)
             /\ completed[i] = [type |-> "requestCompleted",
                                server |-> calls[k].server,
                                method |-> calls[k].method,
                                success |-> (o.settled[i].as = "resolved")]
             /\ o.settled[i].as \in {"resolved", "rejected"}
             /\ o.settled[i].as = "rejected" => o.settled[i].with = "timeout"
             /\ \A j \in DOMAIN o.settled : o.settled[j].call = k => j = i
     /\ o.thrown # "none" => (o.written = <<>> /\ completed = <<>>)

C39_EveryStepReports ==
  \A o \in Outcomes : ~o.crashed => OneEventPerSettle(o)

\* C39: every request written to a worker is completed: its caller is settled
\* by a step of a running client, and the step that settles it emits exactly
\* one requestCompleted, with success = true exactly when the caller was
\* resolved; a call that throws before sending emits none.
C39_CompletedExactlyOnce ==
  /\ []C39_EveryStepReports
  /\ \A k \in 1..MaxIssued : Pending(k) ~> (~Pending(k) /\ ~crashed)

\* ---------------------------------------------------------------- C40
\* C40: executeMultiStepRequest runs its loop body at most 10 times and so
\* calls at most 10 tools for one user request, whatever the LLM returns and
\* whether or not the loop detection fires: the loop is entered only below 10
\* steps, and every iteration counts one step and issues at most one call.
C40_AtMostTenSteps ==
  /\ app.iterations <= maxSteps
  /\ app.issued <= maxSteps
  /\ app.issued <= app.iterations
  /\ app.pc = "loop" =>
       /\ app.stepCount < maxSteps
       /\ \A answer \in LLMResults, outcome \in {"result", "thrown"} :
            LET a == LoopBody(app, answer, outcome)
            IN /\ a.iterations = app.iterations + 1
               /\ a.stepCount = app.stepCount + 1
               /\ a.issued \in {app.issued, app.issued + 1}
               /\ a.stepCount >= maxSteps => a.pc # "loop"

\* The loop ran to its limit with a tool called in every iteration.
C40_Witness ==
  /\ app.pc = "done"
  /\ app.iterations = maxSteps
  /\ app.issued = maxSteps
====
